---- MODULE Spec2Model ----
(***************************************************************************)
(* The MCQ practice session of src/components/MCQPractice.tsx: the catalog *)
(* load (fetchQuestions), the session builder (setupSession), the session  *)
(* runner (handleCheckAnswer, handleNext, handleResetSession), the filter  *)
(* panel (handleOpenFilter, FilterModal, handleApplyFilter) and the        *)
(* bookmark toggle (handleToggleBookmark), over a small document store.    *)
(***************************************************************************)
EXTENDS Integers, Sequences, FiniteSets, TLC

\* ---------------------------------------------------------------- bounds
\* Number of MCQ documents the catalog can hold for the chapter.
NQ == 2
\* Largest number typed into the "Number of Questions" input, beyond 100.
MaxTyped == 101
\* Bookmark toggles that may be in flight, or have a banner timer pending.
MaxToggles == 1
\* The same, for a user who presses the bookmark button rapidly.
MaxRapid == 2
\* Progress upserts that may be in flight at once.
MaxInFlight == 1
\* Documents each of the admin's collections can hold.
MaxDocs == 1
\* Chapters the admin may add to the selected subject.
MaxChapters == 3
\* Largest formulaCount or revisionCount a chapters document carries.
MaxCount == 1
\* Chapters a subject shows in the chapter selection view.
MaxListed == 1
\* Largest session size for which the score formula is tabulated.
MaxScoreTotal == 20

\* ------------------------------------------------------- program constants
MAX_QUESTIONS_PER_SESSION == 20
\* selectedOption === null (useState<number | null>(null)).
NoOption == -1
\* The clamp of the limit input: Math.min(100, Math.max(1, ...)).
LimitMin == 1
LimitMax == 100
\* An MCQ is stored with four options (the admin form's options array),
\* which the question card renders with the indexes 0..3.
NumOptions == 4

\* tempTopicId / selectedTopicId === null.
Null == "null"
\* The synthetic "All Topics" entry injected by fetchTopics.
AllTopics == "all"
\* An MCQ document without a topicId (the field is optional).
NoTopic == "none"

QIds == 1..NQ

\* The topic ids of the chapter's stored topics (the select's other options).
TopicIds == {"t1"}

\* The stored MCQ documents of the chapter: question q's topic reference ...
TopicOf(q) == IF q % 2 = 1 THEN "t1" ELSE NoTopic

\* ... and its 1-based correct option.
CorrectOf(q) == IF q % 2 = 1 THEN NumOptions ELSE 1

\* The options the modelled user picks: the first and the last.
Picks == {0, NumOptions - 1}

MCQ(q) == [id |-> q, topicId |-> TopicOf(q), correctAnswer |-> CorrectOf(q)]

Min(a, b) == IF a < b THEN a ELSE b
Max(a, b) == IF a > b THEN a ELSE b

Range(s) == {s[i] : i \in 1..Len(s)}

\* The ids of a list of questions.
Ids(s) == {s[i].id : i \in 1..Len(s)}

\* All orderings of a sequence (the outcomes of sort with a random comparator).
Perms(s) == {[i \in 1..Len(s) |-> s[p[i]]] : p \in Permutations(1..Len(s))}

\* A snapshot's documents in document-id order.
RECURSIVE DocsInOrder(_)
DocsInOrder(S) ==
  IF S = {} THEN <<>>
  ELSE LET m == CHOOSE x \in S : \A y \in S : x <= y
       IN <<MCQ(m)>> \o DocsInOrder(S \ {m})

\* Array.prototype.slice(0, n) for an integer n >= 0.
Slice0(s, n) == SubSeq(s, 1, Min(n, Len(s)))

VARIABLES
  \* the document store
  mcqDocs,              \* ids of the mcqs documents with chapterId == chapter.id
  bookmarkDocs,         \* ids of users/<uid>/bookmarks documents of the chapter
  \* props
  isQuickRevision,
  \* component state (useState)
  allQuestions, questions, selectedTopicId, showFilterModal, loading,
  tempTopicId, tempLimit, tempFilterMode,
  currentQuestionIndex, selectedOption, isAnswerChecked, sessionResults,
  isSessionComplete, userBookmarks, msg,
  \* asynchronous work in flight
  fetchPc,              \* where fetchQuestions stands
  progressInFlight,     \* setDoc calls of handleCheckAnswer not yet settled
  toggles,              \* handleToggleBookmark calls not yet finished
  timers,               \* pending setTimeout(() => setMsg(null), 2000)
  \* history
  ignoredChecks         \* some call of handleCheckAnswer returned at its guard

\* The admin panel (src/unnamed/part_001) and the collections it writes.
VARIABLES
  adminDb,              \* the subjects, chapters, topics, mcqs and formulas documents
  adminLoading,         \* AdminPanel's loading
  adminMsg,             \* AdminPanel's msg
  selectedSubjectId, selectedChapterId,
  del,                  \* where handleDeleteChapter stands, and its batch
  addInFlight           \* the addDoc call of an add handler not yet settled

\* State kept beside the mounted practice screen and the admin panel.
VARIABLES
  staleFetch,           \* the fetchQuestions call of the previous chapter, still running
  userDocs,             \* the documents under users/<uid>/, by collection and id
  userWrites,           \* the writes to them that are issued and not yet answered
  chapterDocs,          \* the order of each chapters document of the selected subject,
                        \* in the sequence they were added
  chapters,             \* AdminPanel's chapters: the orders of the list last fetched
  chapterFetches,       \* fetchChapters calls in flight
  chapterAdds,          \* the nextOrder of each addDoc of handleAddChapter in flight
  chapterList,          \* the ChapterSelection view: its props, loading and chapters
  click                 \* what the last call of handleChapterClick did

switchVars == <<staleFetch>>
writeVars == <<userDocs, userWrites>>
chapterVars == <<chapterDocs, chapters, chapterFetches, chapterAdds>>
selectionVars == <<chapterList, click>>
sideVars == <<switchVars, writeVars, chapterVars, selectionVars>>

adminVars == <<adminDb, adminLoading, adminMsg, selectedSubjectId, selectedChapterId,
               del, addInFlight>>

storeVars == <<mcqDocs, bookmarkDocs>>
filterVars == <<selectedTopicId, showFilterModal, tempTopicId, tempLimit, tempFilterMode>>
runVars == <<currentQuestionIndex, selectedOption, isAnswerChecked, sessionResults,
             isSessionComplete>>
asyncVars == <<fetchPc, progressInFlight, toggles, timers>>
\* What only the mount and handleCheckAnswer's guard decide.
fixedVars == <<isQuickRevision, ignoredChecks>>

\* The state of the mounted practice screen and the store it reads.
mountVars == <<mcqDocs, bookmarkDocs, isQuickRevision,
                 allQuestions, questions, selectedTopicId, showFilterModal, loading,
                 tempTopicId, tempLimit, tempFilterMode,
                 currentQuestionIndex, selectedOption, isAnswerChecked, sessionResults,
                 isSessionComplete, userBookmarks, msg,
                 fetchPc, progressInFlight, toggles, timers, ignoredChecks>>

practiceVars == <<sideVars, mountVars>>

vars == <<practiceVars, adminVars>>

\* ---------------------------------------------------------- admin store
\* Documents per collection (their ids are 1..MaxDocs).
DocIds == 1..MaxDocs

\* The chapters the store can hold: the one being deleted and another.
ChapterIds == {1, 2}

\* useState<string>(''): no subject or chapter is selected.
NoSelection == 0

\* A topics, mcqs or formulas document: its id and its chapterId field.
Doc(id, chapterId) == [id |-> id, chapterId |-> chapterId]

DependentCollections == {"topics", "mcqs", "formulas"}

\* No delete is running.
\* No addDoc call is pending.
NoAdd == [collection |-> "none", chapterId |-> NoSelection, text |-> "",
          options |-> <<>>, correctAnswer |-> 0]

DelIdle == [pc |-> "idle", chapterId |-> NoSelection, batch |-> {}]

\* AdminPanel after construction, over a store with one chapter.
AdminInit ==
  /\ adminDb = [subjects |-> {}, chapters |-> {1}, topics |-> {}, mcqs |-> {},
                formulas |-> {}]
  /\ adminLoading = FALSE
  /\ adminMsg = Null
  /\ selectedSubjectId = NoSelection
  /\ selectedChapterId = NoSelection
  /\ del = DelIdle
  /\ addInFlight = NoAdd

\* No fetch of an earlier chapter is running.
NoStale == [pc |-> "none", mcqDocs |-> {}, bookmarkDocs |-> {}]

\* The collections under users/<uid>/ that the practice screen writes.
UserCollections == {"progress", "bookmarks"}

\* No document at a path.
Absent == "absent"

\* ------------------------------------------------------ chapter selection
\* src/components/ChapterSelection.tsx.  A chapters document read from the
\* store carries isLocked and the counts; a count the document does not carry
\* reads as undefined (AdminPanel writes mcqCount and formulaCount but no
\* revisionCount).
Undefined == -1
Counts == {Undefined} \cup 0..MaxCount
Chapter == [isLocked : BOOLEAN, formulaCount : Counts, revisionCount : Counts]
ChapterLists == UNION {[1..n -> Chapter] : n \in 0..MaxListed}

\* Before the parent renders the view.
Unmounted ==
  [mounted |-> FALSE, isQuickRevision |-> FALSE, isFormulaMode |-> FALSE,
   loading |-> TRUE, chapters |-> <<>>]

NoChapter == [isLocked |-> FALSE, formulaCount |-> Undefined, revisionCount |-> Undefined]
NoClick == [clicked |-> FALSE, chapter |-> NoChapter, onSelectChapter |-> FALSE, alert |-> "none"]

\* The parent renders ChapterSelection with its two mode props; the effect
\* starts fetchChapters.
MountSelection(qr, fm) ==
  /\ ~chapterList.mounted
  /\ chapterList' = [mounted |-> TRUE, isQuickRevision |-> qr, isFormulaMode |-> fm,
                     loading |-> TRUE, chapters |-> <<>>]
  /\ UNCHANGED <<adminVars, mountVars, switchVars, writeVars, chapterVars, click>>

\* fetchChapters: the query answers with the subject's chapters, which are
\* sorted by order and stored; finally setLoading(false).
SelectionFetchOk(fetchedChapters) ==
  /\ chapterList.mounted
  /\ chapterList.loading
  /\ chapterList' = [chapterList EXCEPT !.chapters = fetchedChapters, !.loading = FALSE]
  /\ UNCHANGED <<adminVars, mountVars, switchVars, writeVars, chapterVars, click>>

\* fetchChapters: the query throws; the catch logs, finally setLoading(false).
SelectionFetchFail ==
  /\ chapterList.mounted
  /\ chapterList.loading
  /\ chapterList' = [chapterList EXCEPT !.loading = FALSE]
  /\ UNCHANGED <<adminVars, mountVars, switchVars, writeVars, chapterVars, click>>

\* The first guard of handleChapterClick.
LockGuardAnyMode(chapter) == chapter.isLocked

LockGuard(chapter) ==
  ~chapterList.isQuickRevision /\ ~chapterList.isFormulaMode /\ chapter.isLocked

\* handleChapterClick(chapter), for the i-th row of the rendered list: three
\* guards that return (two of them after an alert), then onSelectChapter.
HandleChapterClick(i) ==
  /\ chapterList.mounted
  /\ ~chapterList.loading
  /\ i \in 1..Len(chapterList.chapters)
  /\ LET chapter == chapterList.chapters[i]
         Done(called, alert) ==
           [clicked |-> TRUE, chapter |-> chapter, onSelectChapter |-> called, alert |-> alert]
     IN click' =
          IF LockGuard(chapter) THEN Done(FALSE, "none")
          ELSE IF chapterList.isFormulaMode /\ chapter.formulaCount = 0
            THEN Done(FALSE, "no formulas")
          ELSE IF chapterList.isQuickRevision /\ chapter.revisionCount = 0
            THEN Done(FALSE, "no bookmarked questions")
          ELSE Done(TRUE, "none")
  /\ UNCHANGED <<adminVars, mountVars, switchVars, writeVars, chapterVars, chapterList>>

\* ---------------------------------------------------------------- Init
Init ==
  /\ AdminInit
  /\ staleFetch = NoStale
  /\ userDocs = [c \in UserCollections |-> [q \in QIds |-> Absent]]
  /\ userWrites = {}
  /\ chapterDocs = <<>>
  /\ chapters = <<>>
  /\ chapterFetches = 0
  /\ chapterAdds = <<>>
  /\ chapterList = Unmounted
  /\ click = NoClick
  /\ mcqDocs \in SUBSET QIds
  /\ bookmarkDocs \in SUBSET mcqDocs
  /\ isQuickRevision \in BOOLEAN
  /\ allQuestions = <<>>
  /\ questions = <<>>
  /\ selectedTopicId = Null
  /\ showFilterModal = FALSE
  /\ loading = TRUE
  /\ tempTopicId = Null
  /\ tempLimit = MAX_QUESTIONS_PER_SESSION
  /\ tempFilterMode = "all"
  /\ currentQuestionIndex = 0
  /\ selectedOption = NoOption
  /\ isAnswerChecked = FALSE
  /\ sessionResults = <<>>
  /\ isSessionComplete = FALSE
  /\ userBookmarks = {}
  /\ msg = Null
  /\ fetchPc = "questions"
  /\ progressInFlight = <<>>
  /\ toggles = <<>>
  /\ timers = 0
  /\ ignoredChecks = FALSE

\* ------------------------------------------------------ session builder
\* Step 1 of setupSession: the topic filter.
TopicFiltered(source, topicId) ==
  IF topicId # Null /\ topicId # AllTopics
  THEN SelectSeq(source, LAMBDA q : q.topicId = topicId)
  ELSE source

\* A mode filter that forgets the quick-revision context.
ModeFilteredByModeOnly(list, bookmarks, mode) ==
  IF mode = "bookmarked"
  THEN SelectSeq(list, LAMBDA q : q.id \in bookmarks)
  ELSE list

\* Step 2 of setupSession: the mode filter ('new' filters nothing).
ModeFiltered(list, bookmarks, mode) ==
  IF isQuickRevision \/ mode = "bookmarked"
  THEN SelectSeq(list, LAMBDA q : q.id \in bookmarks)
  ELSE list

Filtered(source, bookmarks, mode, topicId) ==
  ModeFiltered(TopicFiltered(source, topicId), bookmarks, mode)

\* A builder that always keeps the list it sorted as the cached list.
SortsSourceInPlaceAlways(mode, topicId) == TRUE

\* Whether filtered is still the source array itself (no .filter() made a copy),
\* so that the in-place sort reorders the cached list.
SortsSourceInPlace(mode, topicId) ==
  /\ ~(topicId # Null /\ topicId # AllTopics)
  /\ ~(isQuickRevision \/ mode = "bookmarked")

\* A slice that keeps one question more than the limit.
FinalQuestionsOneMore(shuffled, limit) == Slice0(shuffled, limit + 1)

\* Step 4 of setupSession: shuffled.slice(0, limit).
FinalQuestions(shuffled, limit) == Slice0(shuffled, limit)

\* The cached list is the array a fetch produced: the chapters hold different
\* questions, so the array is known by its members.
Held(fetched) == Range(allQuestions) = Range(fetched)

\* The local fetchedQuestions of a fetchQuestions call at its second await: the
\* array it passed to setAllQuestions, as sorted since if it is still the
\* cached one.
FetchedQuestions(docs) ==
  IF Held(DocsInOrder(docs)) THEN allQuestions ELSE DocsInOrder(docs)

\* setupSession(sourceQuestions, bookmarks, mode, topicId, limit): the state it
\* sets (one batch of updates, the resets of lines 134-137 written first), for
\* every order the random comparator can produce.  The sort reorders the
\* array it was given; the cached list changes with it when it is that array.
\* Its last update, setIsSessionComplete(finalQuestions.length === 0), is
\* SetupComplete; the callers state it, since handleResetSession queues a later
\* update of the same state in the same batch.
setupSession(source, bookmarks, mode, topicId, limit) ==
  /\ currentQuestionIndex' = 0
  /\ selectedOption' = NoOption
  /\ isAnswerChecked' = FALSE
  /\ sessionResults' = <<>>
  /\ \E shuffled \in Perms(Filtered(source, bookmarks, mode, topicId)) :
       /\ allQuestions' = IF SortsSourceInPlace(mode, topicId) /\ Held(source)
                          THEN shuffled
                          ELSE allQuestions
       /\ questions' = FinalQuestions(shuffled, limit)

SetupComplete(finalQuestions) == Len(finalQuestions) = 0

\* ------------------------------------------------------------ catalog load
\* A first await that already shows the fetched questions as the session.
FetchQuestionsOkShowing ==
  /\ fetchPc = "questions"
  /\ allQuestions' = DocsInOrder(mcqDocs)
  /\ questions' = DocsInOrder(mcqDocs)
  /\ fetchPc' = "bookmarks"
  /\ UNCHANGED <<adminVars, sideVars, storeVars, fixedVars, filterVars, loading, runVars,
                 userBookmarks, msg, progressInFlight, toggles, timers>>

\* fetchQuestions, first await: the mcqs query resolves; setAllQuestions.
FetchQuestionsOk ==
  /\ fetchPc = "questions"
  /\ allQuestions' = DocsInOrder(mcqDocs)
  /\ fetchPc' = "bookmarks"
  /\ UNCHANGED <<adminVars, sideVars, storeVars, fixedVars, questions, filterVars, loading, runVars,
                 userBookmarks, msg, progressInFlight, toggles, timers>>

\* fetchQuestions: either query rejects; catch logs, finally setLoading(false).
FetchFail ==
  /\ fetchPc \in {"questions", "bookmarks"}
  /\ loading' = FALSE
  /\ fetchPc' = "failed"
  /\ UNCHANGED <<adminVars, sideVars, storeVars, fixedVars, allQuestions, questions, filterVars, runVars,
                 userBookmarks, msg, progressInFlight, toggles, timers>>

\* fetchQuestions, second await: the bookmarks query resolves; setUserBookmarks,
\* the initial setupSession (with the filter values of the render that created
\* the callback), setLoading(false).
FetchBookmarksOk ==
  /\ fetchPc = "bookmarks"
  /\ userBookmarks' = bookmarkDocs
  /\ setupSession(FetchedQuestions(mcqDocs), bookmarkDocs, tempFilterMode, tempTopicId,
                  tempLimit)
  /\ isSessionComplete' = SetupComplete(questions')
  /\ loading' = FALSE
  /\ fetchPc' = "done"
  /\ UNCHANGED <<adminVars, sideVars, storeVars, fixedVars, filterVars, msg, progressInFlight,
                 toggles, timers>>

\* A load that issues both queries before it awaits either.
InFlightTogether ==
  IF fetchPc = "questions" THEN {"questions", "bookmarks"}
  ELSE IF fetchPc = "bookmarks" THEN {"bookmarks"}
  ELSE {}

\* The queries of fetchQuestions that are issued and not settled: it awaits the
\* mcqs query (line 73) before it creates and awaits the bookmarks query (82).
InFlight ==
  IF fetchPc = "questions" THEN {"questions"}
  ELSE IF fetchPc = "bookmarks" THEN {"bookmarks"}
  ELSE {}

\* ---------------------------------------------------------- chapter switch
\* The parent hands the mounted component another chapter: the effect of lines
\* 96-100 calls fetchQuestions again (setLoading(true), the mcqs query of the new
\* chapter), the component state stays, and a fetch still running for the old
\* chapter goes on.  The new chapter holds other questions.
SwitchChapter ==
  /\ staleFetch = NoStale
  /\ staleFetch' = IF fetchPc \in {"questions", "bookmarks"}
                   THEN [pc |-> fetchPc, mcqDocs |-> mcqDocs, bookmarkDocs |-> bookmarkDocs]
                   ELSE NoStale
  /\ mcqDocs' \in SUBSET (QIds \ mcqDocs)
  /\ bookmarkDocs' \in SUBSET mcqDocs'
  /\ loading' = TRUE
  /\ fetchPc' = "questions"
  /\ UNCHANGED <<adminVars, writeVars, chapterVars, selectionVars, fixedVars, allQuestions, questions, filterVars, runVars,
                 userBookmarks, msg, progressInFlight, toggles, timers>>

\* The old chapter's fetch, first await: setAllQuestions.
StaleFetchQuestionsOk ==
  /\ staleFetch.pc = "questions"
  /\ allQuestions' = DocsInOrder(staleFetch.mcqDocs)
  /\ staleFetch' = [staleFetch EXCEPT !.pc = "bookmarks"]
  /\ UNCHANGED <<adminVars, writeVars, chapterVars, selectionVars, storeVars, fixedVars, questions, filterVars, loading, runVars,
                 userBookmarks, msg, asyncVars>>

\* The old chapter's fetch rejects: catch logs, finally setLoading(false).
StaleFetchFail ==
  /\ staleFetch.pc \in {"questions", "bookmarks"}
  /\ loading' = FALSE
  /\ staleFetch' = NoStale
  /\ UNCHANGED <<adminVars, writeVars, chapterVars, selectionVars, storeVars, fixedVars, allQuestions, questions, filterVars,
                 runVars, userBookmarks, msg, asyncVars>>

\* The old chapter's fetch, second await: setUserBookmarks, setupSession,
\* setLoading(false).
StaleFetchBookmarksOk ==
  /\ staleFetch.pc = "bookmarks"
  /\ userBookmarks' = staleFetch.bookmarkDocs
  /\ setupSession(FetchedQuestions(staleFetch.mcqDocs), staleFetch.bookmarkDocs,
                  tempFilterMode, tempTopicId, tempLimit)
  /\ isSessionComplete' = SetupComplete(questions')
  /\ loading' = FALSE
  /\ staleFetch' = NoStale
  /\ UNCHANGED <<adminVars, writeVars, chapterVars, selectionVars, storeVars, fixedVars, filterVars, msg, asyncVars>>

\* --------------------------------------------------------------- handlers
\* The question card is rendered (main render, lines 406-408).
ShowsQuestion ==
  /\ ~loading
  /\ ~isSessionComplete
  /\ Len(questions) > 0
  /\ currentQuestionIndex < Len(questions)

currentQuestion == questions[currentQuestionIndex + 1]

\* An option button: onClick={() => !isAnswerChecked && setSelectedOption(index)}.
SelectOption(index) ==
  /\ ShowsQuestion
  /\ ~isAnswerChecked
  /\ selectedOption' = index
  /\ UNCHANGED <<adminVars, sideVars, storeVars, fixedVars, allQuestions, questions, filterVars, loading,
                 currentQuestionIndex, isAnswerChecked, sessionResults, isSessionComplete,
                 userBookmarks, msg, asyncVars>>

\* A comparison that takes correctAnswer for a 0-based index.
IsCorrectOneBased(selected, correctAnswer) == selected = correctAnswer

\* const isCorrect = selectedOption === currentQ.correctAnswer - 1.
IsCorrect(selected, correctAnswer) == selected = correctAnswer - 1

\* The SessionResult handleCheckAnswer appends.
Result(q, selected) ==
  [questionId |-> q.id, correctAnswer |-> q.correctAnswer, selectedOption |-> selected,
   isCorrect |-> IsCorrect(selected, q.correctAnswer)]

\* A guard that forgets the checked flag.
CheckIgnoredSelectionOnly == selectedOption = NoOption

\* The guard of handleCheckAnswer (line 159).
CheckIgnored == selectedOption = NoOption \/ isAnswerChecked

\* handleCheckAnswer up to its await: the guard, setIsAnswerChecked(true), the
\* appended result and the setDoc call it issues.
HandleCheckAnswer ==
  /\ ~loading
  /\ IF CheckIgnored
     THEN /\ ignoredChecks' = TRUE
          /\ UNCHANGED <<isAnswerChecked, sessionResults, progressInFlight>>
     ELSE /\ Len(progressInFlight) < MaxInFlight
          /\ isAnswerChecked' = TRUE
          /\ sessionResults' = Append(sessionResults, Result(currentQuestion, selectedOption))
          /\ progressInFlight' =
               Append(progressInFlight,
                      [questionId |-> currentQuestion.id,
                       isCorrect |-> IsCorrect(selectedOption, currentQuestion.correctAnswer)])
          /\ UNCHANGED ignoredChecks
  /\ UNCHANGED <<adminVars, sideVars, storeVars, isQuickRevision, allQuestions, questions, filterVars, loading,
                 currentQuestionIndex, selectedOption, isSessionComplete,
                 userBookmarks, msg, fetchPc, toggles, timers>>

\* The footer renders the "check" button, and it is not disabled (lines 507-511).
CheckButtonEnabled ==
  /\ ~isSessionComplete
  /\ Len(questions) > 0
  /\ ~isAnswerChecked
  /\ selectedOption # NoOption

\* The setDoc of handleCheckAnswer resolves (the store has merged the progress
\* document, which the component never reads): the handler returns.
ProgressWriteOk ==
  /\ \E i \in 1..Len(progressInFlight) :
       progressInFlight' =
         SubSeq(progressInFlight, 1, i - 1) \o
         SubSeq(progressInFlight, i + 1, Len(progressInFlight))
  /\ UNCHANGED <<adminVars, sideVars, storeVars, fixedVars, allQuestions, questions, filterVars,
                 loading, runVars, userBookmarks, msg, fetchPc, toggles, timers>>

\* The setDoc of handleCheckAnswer rejects: catch logs the error.
ProgressWriteFail ==
  /\ \E i \in 1..Len(progressInFlight) :
       progressInFlight' =
         SubSeq(progressInFlight, 1, i - 1) \o
         SubSeq(progressInFlight, i + 1, Len(progressInFlight))
  /\ UNCHANGED <<adminVars, sideVars, storeVars, fixedVars, allQuestions, questions, filterVars,
                 loading, runVars, userBookmarks, msg, fetchPc, toggles, timers>>

\* A "next" that is offered before the answer is checked.
NextAvailableUnchecked ==
  /\ ~loading
  /\ ~isSessionComplete
  /\ Len(questions) > 0

\* A "next" that waits for the progress writes to settle.
NextAvailableWhenSettled ==
  /\ ~loading
  /\ ~isSessionComplete
  /\ Len(questions) > 0
  /\ isAnswerChecked
  /\ progressInFlight = <<>>

\* The footer renders the "next" button (lines 515-522).
NextAvailable ==
  /\ ~loading
  /\ ~isSessionComplete
  /\ Len(questions) > 0
  /\ isAnswerChecked

\* handleNext.
HandleNext ==
  /\ NextAvailable
  /\ IF currentQuestionIndex < Len(questions) - 1
     THEN /\ currentQuestionIndex' = currentQuestionIndex + 1
          /\ selectedOption' = NoOption
          /\ isAnswerChecked' = FALSE
          /\ UNCHANGED isSessionComplete
     ELSE /\ isSessionComplete' = TRUE
          /\ UNCHANGED <<currentQuestionIndex, selectedOption, isAnswerChecked>>
  /\ UNCHANGED <<adminVars, sideVars, storeVars, fixedVars, allQuestions, questions, filterVars, loading,
                 sessionResults, userBookmarks, msg, asyncVars>>

\* handleResetSession, from the button of the completion screen: setupSession
\* with the panel's values, then setIsSessionComplete(false), which is the
\* update of isSessionComplete that is applied last.
HandleResetSession ==
  /\ ~loading
  /\ isSessionComplete
  /\ setupSession(allQuestions, userBookmarks, tempFilterMode, tempTopicId, tempLimit)
  /\ isSessionComplete' = FALSE
  /\ UNCHANGED <<adminVars, sideVars, storeVars, fixedVars, filterVars, loading, userBookmarks, msg,
                 asyncVars>>

\* handleOpenFilter, from the header button or the "Change Settings" link.
HandleOpenFilter ==
  /\ ~loading
  /\ tempTopicId' = selectedTopicId
  /\ tempLimit' = IF Len(questions) > 0 THEN Len(questions) ELSE MAX_QUESTIONS_PER_SESSION
  /\ showFilterModal' = TRUE
  /\ UNCHANGED <<adminVars, sideVars, storeVars, fixedVars, allQuestions, questions, selectedTopicId,
                 tempFilterMode, loading, runVars, userBookmarks, msg, asyncVars>>

\* The panel is rendered ({showFilterModal && <FilterModal />}).
PanelShown == ~loading /\ showFilterModal

\* The X button of the panel.
CloseFilter ==
  /\ PanelShown
  /\ showFilterModal' = FALSE
  /\ UNCHANGED <<adminVars, sideVars, storeVars, fixedVars, allQuestions, questions, selectedTopicId,
                 tempTopicId, tempLimit, tempFilterMode, loading, runVars, userBookmarks,
                 msg, asyncVars>>

\* The topic select: onChange={(e) => setTempTopicId(e.target.value)}.
SetTempTopicId(t) ==
  /\ PanelShown
  /\ tempTopicId' = t
  /\ UNCHANGED <<adminVars, sideVars, storeVars, fixedVars, allQuestions, questions, selectedTopicId,
                 showFilterModal, tempLimit, tempFilterMode, loading, runVars,
                 userBookmarks, msg, asyncVars>>

\* What parseInt makes of the text typed into the limit input: NaN or an integer.
NaN == [nan |-> TRUE, val |-> 0]
Num(n) == [nan |-> FALSE, val |-> n]
Typed == {NaN, Num(-1), Num(0), Num(1), Num(MaxTyped)}

\* The text the modelled user types: one that parses to NaN (an emptied field).
TypedByUser == {NaN}

\* A clamp without the upper end.
ClampLimitNoCeiling(parsed) ==
  LET orOne == IF parsed.nan \/ parsed.val = 0 THEN 1 ELSE parsed.val
  IN Max(LimitMin, orOne)

\* Math.min(100, Math.max(1, parseInt(e.target.value) || 1)).
ClampLimit(parsed) ==
  LET orOne == IF parsed.nan \/ parsed.val = 0 THEN 1 ELSE parsed.val
  IN Min(LimitMax, Max(LimitMin, orOne))

\* The limit input's onChange.
SetTempLimit(parsed) ==
  /\ PanelShown
  /\ tempLimit' = ClampLimit(parsed)
  /\ UNCHANGED <<adminVars, sideVars, storeVars, fixedVars, allQuestions, questions, selectedTopicId,
                 showFilterModal, tempTopicId, tempFilterMode, loading, runVars,
                 userBookmarks, msg, asyncVars>>

\* The mode buttons, rendered only outside quick revision ('new' is commented out).
SetTempFilterMode(m) ==
  /\ PanelShown
  /\ ~isQuickRevision
  /\ tempFilterMode' = m
  /\ UNCHANGED <<adminVars, sideVars, storeVars, fixedVars, allQuestions, questions, selectedTopicId,
                 showFilterModal, tempTopicId, tempLimit, loading, runVars,
                 userBookmarks, msg, asyncVars>>

\* handleApplyFilter.
HandleApplyFilter ==
  /\ PanelShown
  /\ selectedTopicId' = tempTopicId
  /\ setupSession(allQuestions, userBookmarks, tempFilterMode, tempTopicId, tempLimit)
  /\ isSessionComplete' = SetupComplete(questions')
  /\ showFilterModal' = FALSE
  /\ UNCHANGED <<adminVars, sideVars, storeVars, fixedVars, tempTopicId, tempLimit, tempFilterMode,
                 loading, userBookmarks, msg, asyncVars>>

\* ---------------------------------------------------------- bookmark toggle
RemoveAt(s, i) == SubSeq(s, 1, i - 1) \o SubSeq(s, i + 1, Len(s))

\* An optimistic toggle, which updates the local set as it issues the write.
HandleToggleBookmarkOptimistic ==
  /\ ShowsQuestion
  /\ toggles' = Append(toggles, [questionId |-> questions[currentQuestionIndex + 1].id,
                                 isBookmarked |-> questions[currentQuestionIndex + 1].id
                                                    \in userBookmarks,
                                 phase |-> "issued"])
  /\ userBookmarks' = IF questions[currentQuestionIndex + 1].id \in userBookmarks
                      THEN userBookmarks \ {questions[currentQuestionIndex + 1].id}
                      ELSE userBookmarks \cup {questions[currentQuestionIndex + 1].id}
  /\ UNCHANGED <<adminVars, sideVars, storeVars, fixedVars, allQuestions, questions, filterVars, loading,
                 runVars, msg, fetchPc, progressInFlight, timers>>

\* handleToggleBookmark(currentQuestion.id, userBookmarks.has(currentQuestion.id))
\* up to its await: the deleteDoc or setDoc call is issued.
HandleToggleBookmark ==
  /\ ShowsQuestion
  /\ toggles' = Append(toggles, [questionId |-> currentQuestion.id,
                                 isBookmarked |-> currentQuestion.id \in userBookmarks,
                                 phase |-> "issued"])
  /\ UNCHANGED <<adminVars, sideVars, storeVars, fixedVars, allQuestions, questions, filterVars, loading,
                 runVars, userBookmarks, msg, fetchPc, progressInFlight, timers>>

\* A document reference with an id the store generates (as addDoc would): the
\* first unused one of questionId + NQ, questionId + 2 * NQ, ...
BookmarkRefAutoId(questionId) ==
  CHOOSE d \in {questionId + NQ * k : k \in 1..(Cardinality(bookmarkDocs) + 1)} :
    d \notin bookmarkDocs

\* const bookmarkRef = doc(db, `users/${user.uid}/bookmarks/${questionId}`):
\* the document id within the user's bookmarks is the question id.
BookmarkRef(questionId) == questionId

\* The store applies the toggle's write: deleteDoc removes the bookmark
\* document, setDoc creates (or overwrites) it.
ToggleWriteOk(i) ==
  /\ toggles[i].phase = "issued"
  /\ bookmarkDocs' = IF toggles[i].isBookmarked
                     THEN bookmarkDocs \ {BookmarkRef(toggles[i].questionId)}
                     ELSE bookmarkDocs \cup {BookmarkRef(toggles[i].questionId)}
  /\ toggles' = [toggles EXCEPT ![i].phase = "written"]
  /\ UNCHANGED <<adminVars, sideVars, mcqDocs, fixedVars, allQuestions, questions, filterVars,
                 loading, runVars, userBookmarks, msg, fetchPc, progressInFlight, timers>>

\* The toggle's write is rejected: the store is unchanged.
ToggleWriteFail(i) ==
  /\ toggles[i].phase = "issued"
  /\ toggles' = [toggles EXCEPT ![i].phase = "rejected"]
  /\ UNCHANGED <<adminVars, sideVars, storeVars, fixedVars, allQuestions, questions, filterVars,
                 loading, runVars, userBookmarks, msg, fetchPc, progressInFlight, timers>>

\* A local update that adds the question whatever the toggle was.
ToggledSetAddOnly(prev, questionId, isBookmarked) == prev \cup {questionId}

\* The local set after the awaited write resolved (lines 213-217 and 224).
ToggledSet(prev, questionId, isBookmarked) ==
  IF isBookmarked THEN prev \ {questionId} ELSE prev \cup {questionId}

\* handleToggleBookmark after its await resolved: the functional update of
\* userBookmarks, the success banner and its timer.
ToggleResolved(i) ==
  /\ toggles[i].phase = "written"
  /\ userBookmarks' = ToggledSet(userBookmarks, toggles[i].questionId, toggles[i].isBookmarked)
  /\ msg' = "success"
  /\ timers' = timers + 1
  /\ toggles' = RemoveAt(toggles, i)
  /\ UNCHANGED <<adminVars, sideVars, storeVars, fixedVars, allQuestions, questions, filterVars,
                 loading, runVars, fetchPc, progressInFlight>>

\* handleToggleBookmark after its await rejected: the catch block.
ToggleRejected(i) ==
  /\ toggles[i].phase = "rejected"
  /\ msg' = "error"
  /\ timers' = timers + 1
  /\ toggles' = RemoveAt(toggles, i)
  /\ UNCHANGED <<adminVars, sideVars, storeVars, fixedVars, allQuestions, questions, filterVars,
                 loading, runVars, userBookmarks, fetchPc, progressInFlight>>

\* setTimeout(() => setMsg(null), 2000) fires.
TimerFires ==
  /\ timers > 0
  /\ msg' = Null
  /\ timers' = timers - 1
  /\ UNCHANGED <<adminVars, sideVars, storeVars, fixedVars, allQuestions, questions, filterVars,
                 loading, runVars, userBookmarks, fetchPc, progressInFlight, toggles>>

\* ----------------------------------------------------------- chapter delete
\* where('chapterId', '==', chapterId): the references of the matching documents.
QueryRefs(coll, chapterId) ==
  {<<coll, d.id>> : d \in {x \in adminDb[coll] : x.chapterId = chapterId}}

\* A commit that deletes the chapter document only.
CommittedChapterOnly(db, batch) ==
  [db EXCEPT !.chapters = {c \in @ : <<"chapters", c>> \notin batch}]

\* batch.commit(): the store without every document the batch deletes.
Committed(db, batch) ==
  [db EXCEPT !.chapters = {c \in @ : <<"chapters", c>> \notin batch},
             !.topics = {d \in @ : <<"topics", d.id>> \notin batch},
             !.mcqs = {d \in @ : <<"mcqs", d.id>> \notin batch},
             !.formulas = {d \in @ : <<"formulas", d.id>> \notin batch}]

\* handleDeleteChapter up to its first await: window.confirm, setLoading(true),
\* the batch with the chapter's delete, the topics query issued.  The button is
\* disabled while loading; the chapter list it is rendered from may be stale.
HandleDeleteChapter(chapterId, confirmed) ==
  /\ ~adminLoading
  /\ del.pc = "idle"
  /\ IF confirmed
     THEN /\ adminLoading' = TRUE
          /\ del' = [pc |-> "topics", chapterId |-> chapterId,
                     batch |-> {<<"chapters", chapterId>>}]
     ELSE UNCHANGED <<adminLoading, del>>
  /\ UNCHANGED <<practiceVars, adminDb, adminMsg, selectedSubjectId, selectedChapterId,
                 addInFlight>>

\* The collection whose query follows the one of coll.
NextDeletePc(coll) ==
  CASE coll = "topics" -> "mcqs"
    [] coll = "mcqs" -> "formulas"
    [] coll = "formulas" -> "commit"

\* A dependent query resolves: its documents' deletes join the batch; the next
\* query, or the commit, is issued.
DeleteQueryOk ==
  /\ del.pc \in DependentCollections
  /\ del' = [del EXCEPT !.batch = @ \cup QueryRefs(del.pc, del.chapterId),
                        !.pc = NextDeletePc(del.pc)]
  /\ UNCHANGED <<practiceVars, adminDb, adminLoading, adminMsg, selectedSubjectId,
                 selectedChapterId, addInFlight>>

\* A dependent query or the commit rejects: catch sets the error message,
\* finally setLoading(false); the batch is dropped.
DeleteFail ==
  /\ del.pc \in DependentCollections \cup {"commit"}
  /\ adminMsg' = "error"
  /\ adminLoading' = FALSE
  /\ del' = DelIdle
  /\ UNCHANGED <<practiceVars, adminDb, selectedSubjectId, selectedChapterId, addInFlight>>

\* The commit resolves: the store applies the batch in one write; the success
\* message, setLoading(false).  (The chapter list's refresh is not modelled.)
DeleteCommitOk ==
  /\ del.pc = "commit"
  /\ adminDb' = Committed(adminDb, del.batch)
  /\ adminMsg' = "success"
  /\ adminLoading' = FALSE
  /\ del' = DelIdle
  /\ UNCHANGED <<practiceVars, selectedSubjectId, selectedChapterId, addInFlight>>

\* ------------------------------------------------------------ other clients
\* The unused document ids of a dependent collection.
FreeIds(coll) == DocIds \ {d.id : d \in adminDb[coll]}

\* Another client creates a chapter ...
OtherAddsChapter(chapterId) ==
  /\ chapterId \notin adminDb.chapters
  /\ adminDb' = [adminDb EXCEPT !.chapters = @ \cup {chapterId}]
  /\ UNCHANGED <<practiceVars, adminLoading, adminMsg, selectedSubjectId,
                 selectedChapterId, del, addInFlight>>

\* ... or adds a topic, MCQ or formula to a chapter ...
OtherAddsDoc(coll, chapterId) ==
  /\ FreeIds(coll) # {}
  /\ adminDb' = [adminDb EXCEPT
                   ![coll] = @ \cup {Doc(CHOOSE id \in FreeIds(coll) : TRUE, chapterId)}]
  /\ UNCHANGED <<practiceVars, adminLoading, adminMsg, selectedSubjectId,
                 selectedChapterId, del, addInFlight>>

\* ... or deletes one.
OtherDeletesDoc(coll, d) ==
  /\ d \in adminDb[coll]
  /\ adminDb' = [adminDb EXCEPT ![coll] = @ \ {d}]
  /\ UNCHANGED <<practiceVars, adminLoading, adminMsg, selectedSubjectId,
                 selectedChapterId, del, addInFlight>>

OtherWrites ==
  \/ \E chapterId \in ChapterIds : OtherAddsChapter(chapterId)
  \/ \E coll \in DependentCollections, chapterId \in ChapterIds : OtherAddsDoc(coll, chapterId)
  \/ \E coll \in DependentCollections : \E d \in adminDb[coll] : OtherDeletesDoc(coll, d)

\* The admin deleting chapters.
DeletingChapter ==
  \/ \E chapterId \in ChapterIds, confirmed \in BOOLEAN : HandleDeleteChapter(chapterId, confirmed)
  \/ DeleteQueryOk
  \/ DeleteFail
  \/ DeleteCommitOk

\* --------------------------------------------------------------- add forms
\* What a text field can hold: nothing, white space only, or some text.
Text == {"", " ", "x"}

\* String.prototype.trim.
Trim(t) == IF t = " " THEN "" ELSE t

\* The option fields of the MCQ form.
OptionTexts == [1..NumOptions -> Text]

\* The values of the correct-answer select.
AnswerChoices == 1..NumOptions

\* if (!newSubjectTitle.trim()).
SubjectInvalid(newSubjectTitle) == Trim(newSubjectTitle) = ""

\* if (!selectedSubjectId || !newChapterTitle.trim()).
ChapterInvalid(newChapterTitle) ==
  selectedSubjectId = NoSelection \/ Trim(newChapterTitle) = ""

\* if (!selectedChapterId || !newTopicTitle.trim()).
TopicInvalid(newTopicTitle) ==
  selectedChapterId = NoSelection \/ Trim(newTopicTitle) = ""

\* if (!selectedChapterId || !newFormulaTitle.trim() || !newFormulaLatex.trim()).
FormulaInvalid(newFormulaTitle, newFormulaLatex) ==
  selectedChapterId = NoSelection \/ Trim(newFormulaTitle) = "" \/ Trim(newFormulaLatex) = ""

\* The two checks of handleAddMcq (lines 255 and 258); the question is tested
\* as it was typed, the options trimmed.
McqInvalid(question, options, correctAnswer) ==
  \/ selectedChapterId = NoSelection
  \/ question = ""
  \/ \E i \in 1..NumOptions : Trim(options[i]) = ""
  \/ correctAnswer < 1
  \/ correctAnswer > NumOptions

\* An add handler from its submit to its await: a failed validation sets the
\* error message and returns; otherwise setLoading(true) and the addDoc call,
\* with the trimmed text (and, of an MCQ, the trimmed options and the answer).  The submit button is disabled while loading.
SubmitAdd(invalid, coll, chapterId, text, options, correctAnswer) ==
  /\ ~adminLoading
  /\ addInFlight = NoAdd
  /\ IF invalid
     THEN /\ adminMsg' = "error"
          /\ UNCHANGED <<adminLoading, addInFlight>>
     ELSE /\ adminLoading' = TRUE
          /\ addInFlight' = [collection |-> coll, chapterId |-> chapterId, text |-> Trim(text),
                              options |-> [i \in DOMAIN options |-> Trim(options[i])],
                              correctAnswer |-> correctAnswer]
          /\ UNCHANGED adminMsg
  /\ UNCHANGED <<practiceVars, adminDb, selectedSubjectId, selectedChapterId, del>>

HandleAddSubject(newSubjectTitle) ==
  SubmitAdd(SubjectInvalid(newSubjectTitle), "subjects", NoSelection, newSubjectTitle, <<>>, 0)

HandleAddChapter(newChapterTitle) ==
  SubmitAdd(ChapterInvalid(newChapterTitle), "chapters", NoSelection, newChapterTitle, <<>>, 0)

HandleAddTopic(newTopicTitle) ==
  SubmitAdd(TopicInvalid(newTopicTitle), "topics", selectedChapterId, newTopicTitle, <<>>, 0)

HandleAddFormula(newFormulaTitle, newFormulaLatex) ==
  SubmitAdd(FormulaInvalid(newFormulaTitle, newFormulaLatex), "formulas", selectedChapterId,
            newFormulaTitle, <<>>, 0)

HandleAddMcq(question, options, correctAnswer) ==
  SubmitAdd(McqInvalid(question, options, correctAnswer), "mcqs", selectedChapterId, question,
            options, correctAnswer)

\* The store has room for one more document of the collection.
HasRoom(coll) ==
  CASE coll = "subjects" -> DocIds \ adminDb.subjects # {}
    [] coll = "chapters" -> ChapterIds \ adminDb.chapters # {}
    [] OTHER -> FreeIds(coll) # {}

\* The store after addDoc: the document under a generated id.
Added(db, add) ==
  CASE add.collection = "subjects" ->
         [db EXCEPT !.subjects = @ \cup {CHOOSE id \in DocIds \ db.subjects : TRUE}]
    [] add.collection = "chapters" ->
         [db EXCEPT !.chapters = @ \cup {CHOOSE id \in ChapterIds \ db.chapters : TRUE}]
    [] OTHER ->
         [db EXCEPT ![add.collection] =
            @ \cup {Doc(CHOOSE id \in FreeIds(add.collection) : TRUE, add.chapterId)}]

\* addDoc resolves: the form is cleared, the success message, setLoading(false).
AddDocOk ==
  /\ addInFlight # NoAdd
  /\ HasRoom(addInFlight.collection)
  /\ adminDb' = Added(adminDb, addInFlight)
  /\ adminMsg' = "success"
  /\ adminLoading' = FALSE
  /\ addInFlight' = NoAdd
  /\ UNCHANGED <<practiceVars, selectedSubjectId, selectedChapterId, del>>

\* addDoc rejects: the error message, setLoading(false).
AddDocFail ==
  /\ addInFlight # NoAdd
  /\ adminMsg' = "error"
  /\ adminLoading' = FALSE
  /\ addInFlight' = NoAdd
  /\ UNCHANGED <<practiceVars, adminDb, selectedSubjectId, selectedChapterId, del>>

\* The subject select; without a subject the effect clears the chapter.
SelectSubject(subjectId) ==
  /\ selectedSubjectId' = subjectId
  /\ selectedChapterId' = IF subjectId = NoSelection THEN NoSelection ELSE selectedChapterId
  /\ UNCHANGED <<practiceVars, adminDb, adminLoading, adminMsg, del, addInFlight>>

\* The chapter select of a form, offered once a subject is selected.
SelectChapter(chapterId) ==
  /\ selectedSubjectId # NoSelection
  /\ selectedChapterId' = chapterId
  /\ UNCHANGED <<practiceVars, adminDb, adminLoading, adminMsg, selectedSubjectId, del,
                 addInFlight>>

\* ------------------------------------------------------- the user's records
\* A progress write that goes to the bookmarks collection.
ProgressCollectionShared == "bookmarks"

\* doc(db, `users/${user.uid}/progress/${currentQ.id}`): the collection.
ProgressCollection == "progress"

\* The setDoc(statsRef, {isCorrect, ...}, {merge: true}) of handleCheckAnswer.
ProgressWrite(questionId, isCorrect) ==
  [op |-> "set", collection |-> ProgressCollection, id |-> questionId,
   data |-> IF isCorrect THEN "correct" ELSE "incorrect", phase |-> "issued"]

\* The deleteDoc(bookmarkRef) or setDoc(bookmarkRef, {...}) of handleToggleBookmark.
BookmarkWrite(questionId, isBookmarked) ==
  [op |-> IF isBookmarked THEN "delete" ELSE "set", collection |-> "bookmarks",
   id |-> BookmarkRef(questionId), data |-> "bookmark", phase |-> "issued"]

\* The documents after the store applied a write: setDoc creates or overwrites
\* the document at the path, deleteDoc removes it.
Applied(docs, w) ==
  [docs EXCEPT ![w.collection][w.id] = IF w.op = "delete" THEN Absent ELSE w.data]

\* handleCheckAnswer issues its progress upsert (one at a time: the next
\* question is checked after it).
IssueProgressWrite(questionId, isCorrect) ==
  /\ \A w \in userWrites : w.collection # ProgressCollection
  /\ userWrites' = userWrites \cup {ProgressWrite(questionId, isCorrect)}
  /\ UNCHANGED <<adminVars, mountVars, switchVars, chapterVars, selectionVars, userDocs>>

\* handleToggleBookmark issues its write (one toggle at a time).
IssueBookmarkWrite(questionId, isBookmarked) ==
  /\ \A w \in userWrites : w.collection # "bookmarks" \/ w.data # "bookmark"
  /\ userWrites' = userWrites \cup {BookmarkWrite(questionId, isBookmarked)}
  /\ UNCHANGED <<adminVars, mountVars, switchVars, chapterVars, selectionVars, userDocs>>

\* The store applies an issued write.
UserWriteApplied(w) ==
  /\ w.phase = "issued"
  /\ userDocs' = Applied(userDocs, w)
  /\ userWrites' = (userWrites \ {w}) \cup {[w EXCEPT !.phase = "applied"]}
  /\ UNCHANGED <<adminVars, mountVars, switchVars, chapterVars, selectionVars>>

\* The write's promise settles (resolved after it was applied, or rejected
\* with nothing written): the handler's await returns.
UserWriteSettled(w) ==
  /\ userWrites' = userWrites \ {w}
  /\ UNCHANGED <<adminVars, mountVars, switchVars, chapterVars, selectionVars, userDocs>>

\* ------------------------------------------------------------ chapter form
\* The chapter form with a subject selected (the title field and an enabled
\* submit button exist only then) whose chapter list has been fetched.

\* The largest of a non-empty sequence of orders.
MaxOrder(orders) == CHOOSE m \in Range(orders) : \A o \in Range(orders) : o <= m

\* const nextOrder = chapters.length > 0
\*   ? Math.max(...chapters.map(c => c.order)) + 1 : 1.
NextOrder(list) == IF Len(list) > 0 THEN MaxOrder(list) + 1 ELSE 1

\* handleAddChapter up to its await: the validation, setLoading(true), nextOrder
\* from the chapters state, the addDoc call.
SubmitChapter(newChapterTitle) ==
  /\ ~adminLoading
  /\ Len(chapterDocs) + Len(chapterAdds) < MaxChapters
  /\ IF Trim(newChapterTitle) = ""
     THEN /\ adminMsg' = "error"
          /\ UNCHANGED <<adminLoading, chapterAdds>>
     ELSE /\ adminLoading' = TRUE
          /\ chapterAdds' = Append(chapterAdds, NextOrder(chapters))
          /\ UNCHANGED adminMsg
  /\ UNCHANGED <<mountVars, switchVars, writeVars, selectionVars, adminDb, selectedSubjectId,
                 selectedChapterId, del, addInFlight, chapterDocs, chapters, chapterFetches>>

\* Its addDoc resolves: the document is stored with its order; the success
\* message; fetchChapters is called (setLoading(true), the query) and not
\* awaited; finally setLoading(false) is the last update of the batch.
ChapterAddOk(i) ==
  /\ chapterDocs' = Append(chapterDocs, chapterAdds[i])
  /\ chapterAdds' = RemoveAt(chapterAdds, i)
  /\ adminMsg' = "success"
  /\ chapterFetches' = chapterFetches + 1
  /\ adminLoading' = FALSE
  /\ UNCHANGED <<mountVars, switchVars, writeVars, selectionVars, adminDb, selectedSubjectId,
                 selectedChapterId, del, addInFlight, chapters>>

\* Its addDoc rejects: the error message, setLoading(false).
ChapterAddFail(i) ==
  /\ chapterAdds' = RemoveAt(chapterAdds, i)
  /\ adminMsg' = "error"
  /\ adminLoading' = FALSE
  /\ UNCHANGED <<mountVars, switchVars, writeVars, selectionVars, adminDb, selectedSubjectId,
                 selectedChapterId, del, addInFlight, chapterDocs, chapters, chapterFetches>>

\* A fetchChapters query resolves with the chapters stored now: setChapters,
\* setLoading(false).
FetchChaptersOk ==
  /\ chapterFetches > 0
  /\ chapters' = chapterDocs
  /\ chapterFetches' = chapterFetches - 1
  /\ adminLoading' = FALSE
  /\ UNCHANGED <<mountVars, switchVars, writeVars, selectionVars, adminDb, adminMsg, selectedSubjectId,
                 selectedChapterId, del, addInFlight, chapterDocs, chapterAdds>>

\* A fetchChapters query rejects: the error message, setLoading(false).
FetchChaptersFail ==
  /\ chapterFetches > 0
  /\ chapterFetches' = chapterFetches - 1
  /\ adminMsg' = "error"
  /\ adminLoading' = FALSE
  /\ UNCHANGED <<mountVars, switchVars, writeVars, selectionVars, adminDb, selectedSubjectId,
                 selectedChapterId, del, addInFlight, chapterDocs, chapters, chapterAdds>>

\* ------------------------------------------------------------------- Next
\* The catalog load.
Load ==
  \/ FetchQuestionsOk
  \/ FetchFail
  \/ FetchBookmarksOk

\* The user answering the questions of the session.
Answering ==
  \/ \E index \in Picks : SelectOption(index)
  \/ HandleCheckAnswer
  \/ HandleNext

\* The store settling a progress write.
Settling ==
  \/ ProgressWriteOk
  \/ ProgressWriteFail

\* The bookmark button.
Bookmarking ==
  \/ Len(toggles) + timers < MaxToggles /\ HandleToggleBookmark
  \/ \E i \in 1..Len(toggles) : ToggleWriteOk(i)
  \/ \E i \in 1..Len(toggles) : ToggleWriteFail(i)
  \/ \E i \in 1..Len(toggles) : ToggleResolved(i)
  \/ \E i \in 1..Len(toggles) : ToggleRejected(i)
  \/ TimerFires

\* No progress write is in flight.
Settled == progressInFlight = <<>>

\* A user who practises and restarts, with the progress writes settling at any
\* time, and who leaves the filter panel and the bookmarks alone.
NextRun == Load \/ Answering \/ Settling \/ HandleResetSession

SpecRun == Init /\ [][NextRun]_vars

\* A user who practises, filters and restarts, acting when the last progress
\* write has settled, and who leaves the bookmarks alone.
Next ==
  \/ Settling
  \/ Settled /\ FetchQuestionsOk
  \/ Settled /\ FetchFail
  \/ Settled /\ FetchBookmarksOk
  \/ Settled /\ \E index \in Picks : SelectOption(index)
  \/ Settled /\ HandleCheckAnswer
  \/ Settled /\ HandleNext
  \/ Settled /\ HandleResetSession
  \/ Settled /\ HandleOpenFilter
  \/ Settled /\ CloseFilter
  \/ Settled /\ \E t \in {AllTopics} \cup TopicIds : SetTempTopicId(t)
  \/ Settled /\ \E parsed \in TypedByUser : SetTempLimit(parsed)
  \/ Settled /\ \E m \in {"all", "bookmarked"} : SetTempFilterMode(m)
  \/ Settled /\ HandleApplyFilter

Spec == Init /\ [][Next]_vars

\* A user who practises and bookmarks, acting when the last progress write has
\* settled, and who leaves the filter panel alone.
NextBookmark ==
  \/ Settling
  \/ Bookmarking
  \/ Settled /\ FetchQuestionsOk
  \/ Settled /\ FetchFail
  \/ Settled /\ FetchBookmarksOk
  \/ Settled /\ \E index \in Picks : SelectOption(index)
  \/ Settled /\ CheckButtonEnabled /\ HandleCheckAnswer
  \/ Settled /\ HandleNext

SpecBookmark == Init /\ [][NextBookmark]_vars

\* The same user, who presses the bookmark button only when no earlier toggle
\* is still running.
NextBookmarkSerial ==
  \/ Settling
  \/ toggles = <<>> /\ timers < MaxToggles /\ HandleToggleBookmark
  \/ \E i \in 1..Len(toggles) : ToggleWriteOk(i)
  \/ \E i \in 1..Len(toggles) : ToggleWriteFail(i)
  \/ \E i \in 1..Len(toggles) : ToggleResolved(i)
  \/ \E i \in 1..Len(toggles) : ToggleRejected(i)
  \/ TimerFires
  \/ Settled /\ FetchQuestionsOk
  \/ Settled /\ FetchFail
  \/ Settled /\ FetchBookmarksOk
  \/ Settled /\ \E index \in Picks : SelectOption(index)
  \/ Settled /\ CheckButtonEnabled /\ HandleCheckAnswer
  \/ Settled /\ HandleNext

SpecBookmarkSerial == Init /\ [][NextBookmarkSerial]_vars

\* A user who, once the session is loaded, only presses the bookmark button, also
\* while earlier toggles are still running.
NextRapid ==
  \/ FetchQuestionsOk
  \/ FetchFail
  \/ FetchBookmarksOk
  \/ Len(toggles) + timers < MaxRapid /\ HandleToggleBookmark
  \/ \E i \in 1..Len(toggles) : ToggleWriteOk(i)
  \/ \E i \in 1..Len(toggles) : ToggleWriteFail(i)
  \/ \E i \in 1..Len(toggles) : ToggleResolved(i)
  \/ \E i \in 1..Len(toggles) : ToggleRejected(i)
  \/ TimerFires

SpecRapid == Init /\ [][NextRapid]_vars

\* A user who practises, edits the limit field with any text, applies and
\* restarts, and who leaves the topic, the mode and the bookmarks alone.
NextLimit ==
  \/ Settling
  \/ Settled /\ FetchQuestionsOk
  \/ Settled /\ FetchFail
  \/ Settled /\ FetchBookmarksOk
  \/ Settled /\ \E index \in Picks : SelectOption(index)
  \/ Settled /\ CheckButtonEnabled /\ HandleCheckAnswer
  \/ Settled /\ HandleNext
  \/ Settled /\ HandleResetSession
  \/ Settled /\ HandleOpenFilter
  \/ Settled /\ CloseFilter
  \/ Settled /\ \E parsed \in Typed : SetTempLimit(parsed)
  \/ Settled /\ HandleApplyFilter

SpecLimit == Init /\ [][NextLimit]_vars

\* A user who only changes the settings: any topic, mode and limit text,
\* applied, and restarts offered by sessions that were built empty.
NextFilter ==
  \/ FetchQuestionsOk
  \/ FetchFail
  \/ FetchBookmarksOk
  \/ HandleOpenFilter
  \/ CloseFilter
  \/ \E t \in {AllTopics} \cup TopicIds : SetTempTopicId(t)
  \/ \E parsed \in Typed : SetTempLimit(parsed)
  \/ \E m \in {"all", "bookmarked"} : SetTempFilterMode(m)
  \/ HandleApplyFilter
  \/ HandleResetSession

SpecFilter == Init /\ [][NextFilter]_vars

\* A parent that changes the chapter of the mounted screen, the fetches
\* settling at any time, the user only watching.
NextSwitch ==
  \/ FetchQuestionsOk
  \/ FetchFail
  \/ FetchBookmarksOk
  \/ SwitchChapter
  \/ StaleFetchQuestionsOk
  \/ StaleFetchFail
  \/ StaleFetchBookmarksOk

SpecSwitch == Init /\ [][NextSwitch]_vars

\* The practice screen seen from the store: progress upserts and bookmark
\* writes of a chapter's questions, applied and answered in any order.
InitWrites == Init /\ mcqDocs = QIds /\ bookmarkDocs = {} /\ ~isQuickRevision

NextWrites ==
  \/ \E q \in QIds, isCorrect \in BOOLEAN : IssueProgressWrite(q, isCorrect)
  \/ \E q \in QIds, isBookmarked \in BOOLEAN : IssueBookmarkWrite(q, isBookmarked)
  \/ \E w \in userWrites : UserWriteApplied(w)
  \/ \E w \in userWrites : UserWriteSettled(w)

SpecWrites == InitWrites /\ [][NextWrites]_vars

\* The admin panel in use, the practice screen left as it was mounted (over a
\* chapter without questions).
InitAdmin == Init /\ mcqDocs = {} /\ ~isQuickRevision

\* An admin who deletes chapters of a store that other clients write to only
\* while no delete is running.
NextAdminDelete ==
  \/ DeletingChapter
  \/ del.pc = "idle" /\ OtherWrites

SpecAdminDelete == InitAdmin /\ [][NextAdminDelete]_vars

\* The same, with the other clients writing at any time.
NextAdminDeleteRacing ==
  \/ DeletingChapter
  \/ OtherWrites

SpecAdminDeleteRacing == InitAdmin /\ [][NextAdminDeleteRacing]_vars

\* An admin who fills in and submits the add forms.
NextAdminForms ==
  \/ \E subjectId \in adminDb.subjects \cup {NoSelection} : SelectSubject(subjectId)
  \/ \E chapterId \in adminDb.chapters \cup {NoSelection} : SelectChapter(chapterId)
  \/ \E t \in Text : HandleAddSubject(t)
  \/ \E t \in Text : HandleAddChapter(t)
  \/ \E t \in Text : HandleAddTopic(t)
  \/ \E t, latex \in Text : HandleAddFormula(t, latex)
  \/ \E question \in Text, options \in OptionTexts, correctAnswer \in AnswerChoices :
       HandleAddMcq(question, options, correctAnswer)
  \/ AddDocOk
  \/ AddDocFail

SpecAdminForms == InitAdmin /\ [][NextAdminForms]_vars

\* An admin who adds chapters to the selected subject.
NextChapterForm ==
  \/ \E t \in Text : SubmitChapter(t)
  \/ \E i \in 1..Len(chapterAdds) : ChapterAddOk(i)
  \/ \E i \in 1..Len(chapterAdds) : ChapterAddFail(i)
  \/ FetchChaptersOk
  \/ FetchChaptersFail

SpecChapterForm == InitAdmin /\ [][NextChapterForm]_vars

\* One admin who uses the add forms and the manage tab.
NextAdminPanel ==
  \/ NextAdminForms
  \/ DeletingChapter

SpecAdminPanel == InitAdmin /\ [][NextAdminPanel]_vars

\* The chapter selection view alone.
NextSelection ==
  \/ \E qr \in BOOLEAN, fm \in BOOLEAN : MountSelection(qr, fm)
  \/ \E fetchedChapters \in ChapterLists : SelectionFetchOk(fetchedChapters)
  \/ SelectionFetchFail
  \/ \E i \in 1..MaxListed : HandleChapterClick(i)

SpecSelection == InitAdmin /\ [][NextSelection]_vars

\* ------------------------------------------------------ completion summary
\* const totalCorrect = sessionResults.filter(r => r.isCorrect).length.
totalCorrect == Len(SelectSeq(sessionResults, LAMBDA r : r.isCorrect))

\* const totalAttempted = sessionResults.length.
totalAttempted == Len(sessionResults)

\* A truncating conversion, as a formatting slip would make it.
ToFixed1Truncating(num, den) ==
  LET n == (10 * num) \div den IN <<n \div 10, n % 10>>

\* (num / den).toFixed(1) for num >= 0, den > 0: the digits before and after the
\* point of the nearest tenth, the larger one on a tie.  (For den < 80 the
\* double num / den * 100 rounds as the exact quotient does.)
ToFixed1(num, den) ==
  LET n == (20 * num + den) \div (2 * den) IN <<n \div 10, n % 10>>

\* The score of the summary screen (line 340): a one-decimal text, or the number 0.
Score(correct, total) ==
  IF total > 0 THEN ToFixed1(correct * 100, total) ELSE <<0>>

SummaryScore == Score(totalCorrect, Len(questions))

\* The "wrong answers" line of the summary: totalAttempted - totalCorrect.
totalIncorrect == totalAttempted - totalCorrect

\* ===================================================================== claims
Abs(x) == IF x < 0 THEN -x ELSE x

\* s' extends s by exactly the one element e.
AppendsOne(s, sNext, e) == sNext = Append(s, e)

\* C1: check-answer on an active, unchecked question q with selection s sets the
\* checked flag, appends exactly one result with q's id, selectedOption = s and
\* isCorrect = (s = q.correctAnswer - 1), and issues exactly one progress
\* upsert for q with that isCorrect; and for each correctAnswer in 1..4 exactly
\* one of the options 0..3 is scored correct.
C1_CheckScoresAndRecords ==
  [][(HandleCheckAnswer /\ ShowsQuestion /\ selectedOption # NoOption /\ ~isAnswerChecked)
       => /\ isAnswerChecked'
          /\ AppendsOne(sessionResults, sessionResults',
                        [questionId |-> questions[currentQuestionIndex + 1].id,
                         correctAnswer |-> questions[currentQuestionIndex + 1].correctAnswer,
                         selectedOption |-> selectedOption,
                         isCorrect |-> (selectedOption =
                                          questions[currentQuestionIndex + 1].correctAnswer - 1)])
          /\ AppendsOne(progressInFlight, progressInFlight',
                        [questionId |-> questions[currentQuestionIndex + 1].id,
                         isCorrect |-> (selectedOption =
                                          questions[currentQuestionIndex + 1].correctAnswer - 1)])
          /\ \A ca \in 1..NumOptions :
               Cardinality({o \in 0..(NumOptions - 1) : IsCorrect(o, ca)}) = 1
          /\ \A ca \in 1..NumOptions : IsCorrect(ca - 1, ca)
     ]_vars

\* C1 witness: a correct answer has been checked; its result and its upsert exist.
C1_Witness ==
  /\ isAnswerChecked
  /\ Len(sessionResults) = 1
  /\ sessionResults[1].isCorrect
  /\ sessionResults[1].selectedOption = sessionResults[1].correctAnswer - 1
  /\ progressInFlight = <<[questionId |-> sessionResults[1].questionId, isCorrect |-> TRUE]>>

\* C2: check-answer with no option selected, or on a question that is already
\* checked, adds no result, issues no upsert and leaves the index, the
\* selection, the checked flag and the completion flag as they were.
C2_IgnoredCheckChangesNothing ==
  [][(HandleCheckAnswer /\ (selectedOption = NoOption \/ isAnswerChecked))
       => /\ ignoredChecks'
          /\ UNCHANGED <<sessionResults, progressInFlight, currentQuestionIndex,
                         selectedOption, isAnswerChecked, isSessionComplete>>
     ]_vars

\* C2 witness: a call was ignored on an active question that is already checked,
\* whose one result is the only one.
C2_Witness ==
  /\ ignoredChecks
  /\ ShowsQuestion
  /\ isAnswerChecked
  /\ Len(sessionResults) = currentQuestionIndex + 1
  /\ currentQuestionIndex = 1

\* C3: next is offered only on a checked question; before the last question it
\* moves to index + 1 and clears the selection and the checked flag, at the last
\* one it marks the session complete; it leaves the question list and the
\* result log alone, and every question it passes has its result in the log.
C3_NextAdvancesOrCompletes ==
  [][HandleNext
       => /\ isAnswerChecked
          /\ IF currentQuestionIndex < Len(questions) - 1
             THEN /\ currentQuestionIndex' = currentQuestionIndex + 1
                  /\ selectedOption' = NoOption
                  /\ ~isAnswerChecked'
                  /\ ~isSessionComplete'
             ELSE /\ isSessionComplete'
                  /\ currentQuestionIndex' = currentQuestionIndex
          /\ questions' = questions
          /\ sessionResults' = sessionResults
          /\ Len(sessionResults') = currentQuestionIndex + 1
          /\ \A k \in 1..(currentQuestionIndex + 1) :
               sessionResults'[k].questionId = questions'[k].id
     ]_vars

\* C3 witness: next has moved the session to its second question.
C3_Witness ==
  /\ ShowsQuestion
  /\ currentQuestionIndex = 1
  /\ ~isAnswerChecked
  /\ selectedOption = NoOption
  /\ Len(sessionResults) = 1

\* ------------------------------------------------------------ session builds
\* The filters a build is given are the panel's values; q passes them, with
\* the bookmark set b supplied to the build.
PassesTopic(q) == tempTopicId \in {Null, AllTopics} \/ q.topicId = tempTopicId
PassesMode(q, b) == (tempFilterMode = "bookmarked" \/ isQuickRevision) => q.id \in b
FilteredSet(b) == {q \in Range(allQuestions) : PassesTopic(q) /\ PassesMode(q, b)}

BuildStep == FetchBookmarksOk \/ HandleApplyFilter \/ HandleResetSession

\* The session questions' has min(limit, size of the filtered set) members of
\* the set filtered with the bookmark set b, none twice.
HasLengthAndMembers(b) ==
  /\ tempLimit >= 1
  /\ Len(questions') = Min(tempLimit, Cardinality(FilteredSet(b)))
  /\ Range(questions') \subseteq FilteredSet(b)
  /\ \A i, j \in 1..Len(questions') : questions'[i].id = questions'[j].id => i = j

\* C4: a session built from the cached questions (distinct ids), a bookmark
\* set, a mode, a topic filter and a limit >= 1 has min(limit, size of the
\* filtered set) questions, each a member of the filtered set, none twice; the
\* initial load builds from the bookmarks it has just read, Apply Filters and
\* Reset build from the local bookmark set.
C4_BuildLengthAndMembers ==
  [][/\ FetchBookmarksOk => HasLengthAndMembers(bookmarkDocs)
     /\ (HandleApplyFilter \/ HandleResetSession) => HasLengthAndMembers(userBookmarks)
     ]_vars

\* C4 witness: a build cut two cached questions down to a limit of one, and the
\* one drawn is the second document.
C4_Witness ==
  /\ fetchPc = "done"
  /\ Len(allQuestions) = 2
  /\ tempLimit = 1
  /\ tempTopicId \in {Null, AllTopics}
  /\ tempFilterMode = "all"
  /\ ~isQuickRevision
  /\ ~showFilterModal
  /\ selectedTopicId = tempTopicId
  /\ sessionResults = <<>>
  /\ Len(questions) = 1
  /\ questions[1].id = 2

\* Every question of the session questions' passes the topic filter and, with
\* the bookmark set b, the mode filter; with the topic filter unset or 'all' and
\* a limit that does not cut, none that passes the mode filter is missing.
RespectsFilters(b) ==
  /\ \A i \in 1..Len(questions') :
       /\ (tempTopicId # Null /\ tempTopicId # AllTopics)
            => questions'[i].topicId = tempTopicId
       /\ (tempFilterMode = "bookmarked" \/ isQuickRevision)
            => questions'[i].id \in b
  /\ (tempTopicId \in {Null, AllTopics} /\ tempLimit >= Len(allQuestions))
       => Ids(questions') =
            IF tempFilterMode = "bookmarked" \/ isQuickRevision
            THEN Ids(allQuestions) \cap b
            ELSE Ids(allQuestions)

\* C5: every question of a built session passes the filters of that build: its
\* topicId equals the topic filter unless that is unset or 'all', and its id is
\* in the bookmark set supplied to the build if the mode is 'bookmarked' or the
\* context is quick revision; with the topic filter unset or 'all' and a limit
\* that does not cut, no question is missing that the mode filter lets pass.
C5_BuildRespectsFilters ==
  [][/\ FetchBookmarksOk => RespectsFilters(bookmarkDocs)
     /\ (HandleApplyFilter \/ HandleResetSession) => RespectsFilters(userBookmarks)
     ]_vars

\* C5 witness: of two cached questions one is bookmarked; a build in bookmarked
\* mode with limit 20 and no topic filter holds exactly that one.
C5_Witness ==
  /\ fetchPc = "done"
  /\ Len(allQuestions) = 2
  /\ userBookmarks = {2}
  /\ tempFilterMode = "bookmarked"
  /\ ~isQuickRevision
  /\ tempTopicId \in {Null, AllTopics}
  /\ tempLimit = MAX_QUESTIONS_PER_SESSION
  /\ ~showFilterModal
  /\ sessionResults = <<>>
  /\ Ids(questions) = {2}

\* C6: every session build (initial load, Apply Filters, Reset) leaves the index
\* at 0, the selection empty, the checked flag false and the result log empty,
\* and leaves the session marked complete if the built list is empty.
C6_BuildResetsRun ==
  [][BuildStep
       => /\ currentQuestionIndex' = 0
          /\ selectedOption' = NoOption
          /\ ~isAnswerChecked'
          /\ sessionResults' = <<>>
          /\ (Len(questions') = 0 => isSessionComplete')
     ]_vars

\* What a Reset in this state can build.
ResetBuilds ==
  {FinalQuestions(p, tempLimit) :
     p \in Perms(Filtered(allQuestions, userBookmarks, tempFilterMode, tempTopicId))}

\* C7: Reset after completion rebuilds with the topic filter, mode and limit last
\* applied (by the initial load or the last Apply Filters) and re-enters the
\* active state at index 0 with an empty log; once the catalog is loaded, what
\* Reset builds is what the last load or Apply Filters left, and no step other
\* than Apply Filters (an edit in the panel, opening the panel) changes it.
C7_ResetUsesAppliedFilters ==
  [][/\ (FetchBookmarksOk \/ HandleApplyFilter) => questions' \in ResetBuilds'
     /\ (fetchPc = "done" /\ ~HandleApplyFilter) => ResetBuilds' = ResetBuilds
     /\ HandleResetSession
          => /\ questions' \in ResetBuilds
             /\ ~isSessionComplete'
             /\ currentQuestionIndex' = 0
             /\ sessionResults' = <<>>
     ]_vars

\* C8 as stated: once the session is complete, no step but Reset changes the
\* result log or returns the session to an active state.
C8_OnlyResetLeavesComplete ==
  [][(isSessionComplete /\ ~HandleResetSession)
       => /\ sessionResults' = sessionResults
          /\ isSessionComplete'
     ]_vars

\* C8, amended: once the session is complete, check-answer, next and selecting
\* an option change neither the result log nor the completion flag; the log
\* changes, and the session leaves the complete state, only through a session
\* build (Reset or Apply Filters), which empties the log.
C8_OnlyBuildsLeaveComplete ==
  [][isSessionComplete
       => /\ (HandleCheckAnswer \/ HandleNext \/ \E index \in Picks : SelectOption(index))
               => /\ sessionResults' = sessionResults
                  /\ isSessionComplete'
                  /\ questions' = questions
          /\ (sessionResults' # sessionResults \/ ~isSessionComplete')
               => /\ HandleResetSession \/ HandleApplyFilter
                  /\ sessionResults' = <<>>
     ]_vars

\* C8 witness: a completed session of two answered questions on which a
\* check-answer call was ignored, with the filter panel open over it.
C8_Witness ==
  /\ isSessionComplete
  /\ Len(questions) = 2
  /\ Len(sessionResults) = 2
  /\ selectedOption # NoOption
  /\ ignoredChecks
  /\ showFilterModal

\* ------------------------------------------------------------------- score
\* The tenths a rendered score stands for.
Tenths(score) == IF Len(score) = 2 THEN 10 * score[1] + score[2] ELSE 10 * score[1]

\* score is correct / total * 100 to one decimal place, between 0 and 100.
IsPercentage(score, correct, total) ==
  /\ Len(score) = 2
  /\ score[2] \in 0..9
  /\ score[1] \in 0..100
  /\ Tenths(score) \in 0..1000
  /\ 2 * Abs(Tenths(score) * total - 1000 * correct) <= total

\* C9: the summary's percentage is correct results / session questions * 100
\* to one decimal place (14 of 20 gives 70.0), between 0 and 100; with zero
\* questions it is the number 0, and nothing is divided.
C9_ScorePercentage ==
  /\ isSessionComplete
       => /\ totalCorrect <= Len(questions)
          /\ IF Len(questions) = 0
             THEN SummaryScore = <<0>>
             ELSE IsPercentage(SummaryScore, totalCorrect, Len(questions))
  /\ Score(14, 20) = <<70, 0>>
  /\ Score(0, 0) = <<0>>
  /\ \A total \in 1..MaxScoreTotal : \A correct \in 0..total :
       IsPercentage(Score(correct, total), correct, total)

\* C9 witness: a completed session of two questions, one of them answered
\* correctly, scored 50.0.
C9_Witness ==
  /\ isSessionComplete
  /\ Len(questions) = 2
  /\ totalAttempted = 2
  /\ totalCorrect = 1
  /\ SummaryScore = <<50, 0>>

\* ---------------------------------------------------------------- bookmarks
\* The writes of bookmark toggles that the store has not yet answered.
Issued(s) == {i \in 1..Len(s) : s[i].phase = "issued"}

\* C10: a bookmark toggle issues one write (a delete if the question is in the
\* local set, a create otherwise) and changes the local set only after that
\* write succeeded; if the write fails the local set and the stored bookmarks
\* stay as they are, an error message is shown, and no further write is issued.
C10_BookmarkAfterWrite ==
  [][/\ HandleToggleBookmark
          => /\ userBookmarks' = userBookmarks
             /\ bookmarkDocs' = bookmarkDocs
             /\ toggles' = Append(toggles,
                                  [questionId |-> questions[currentQuestionIndex + 1].id,
                                   isBookmarked |-> questions[currentQuestionIndex + 1].id
                                                      \in userBookmarks,
                                   phase |-> "issued"])
     /\ userBookmarks' # userBookmarks
          => \/ FetchBookmarksOk
             \/ \E i \in 1..Len(toggles) :
                  /\ toggles[i].phase = "written"
                  /\ ToggleResolved(i)
                  /\ userBookmarks' = IF toggles[i].isBookmarked
                                      THEN userBookmarks \ {toggles[i].questionId}
                                      ELSE userBookmarks \cup {toggles[i].questionId}
     /\ \A i \in 1..Len(toggles) :
          ToggleWriteOk(i)
            => /\ userBookmarks' = userBookmarks
               /\ bookmarkDocs' = IF toggles[i].isBookmarked
                                  THEN bookmarkDocs \ {toggles[i].questionId}
                                  ELSE bookmarkDocs \cup {toggles[i].questionId}
     /\ \A i \in 1..Len(toggles) :
          ToggleRejected(i)
            => /\ userBookmarks' = userBookmarks
               /\ bookmarkDocs' = bookmarkDocs
               /\ msg' = "error"
               /\ Len(toggles') = Len(toggles) - 1
               /\ Cardinality(Issued(toggles')) = Cardinality(Issued(toggles))
     /\ Cardinality(Issued(toggles')) > Cardinality(Issued(toggles))
          => HandleToggleBookmark
     ]_vars

\* C10 witness: a toggle's write was rejected; the error message is shown, the
\* toggle is over, and the local set is still the stored one, without the question.
C10_Witness ==
  /\ ShowsQuestion
  /\ msg = "error"
  /\ toggles = <<>>
  /\ timers = 1
  /\ userBookmarks = bookmarkDocs
  /\ questions[currentQuestionIndex + 1].id \notin userBookmarks

\* C11: with toggles pressed one after the other has completed, the local set
\* equals the stored records whenever no toggle is running; a successful toggle
\* of a question that is not bookmarked creates its record and adds it to the
\* local set, a successful toggle of a bookmarked one deletes its record and
\* removes it from the local set, each leaving every other question as it was;
\* so two successful toggles of a question restore both the local set and the
\* stored records.
C11_ToggleRoundTrip ==
  [][/\ (fetchPc = "done" /\ toggles = <<>>) => userBookmarks = bookmarkDocs
     /\ HandleToggleBookmark
          => toggles'[1].isBookmarked = (questions[currentQuestionIndex + 1].id \in bookmarkDocs)
     /\ \A i \in 1..Len(toggles) :
          ToggleWriteOk(i)
            => IF toggles[i].isBookmarked
               THEN /\ toggles[i].questionId \in bookmarkDocs
                    /\ bookmarkDocs' = bookmarkDocs \ {toggles[i].questionId}
                    /\ bookmarkDocs' \cup {toggles[i].questionId} = bookmarkDocs
               ELSE /\ toggles[i].questionId \notin bookmarkDocs
                    /\ bookmarkDocs' = bookmarkDocs \cup {toggles[i].questionId}
                    /\ bookmarkDocs' \ {toggles[i].questionId} = bookmarkDocs
     /\ \A i \in 1..Len(toggles) :
          ToggleResolved(i)
            => /\ userBookmarks' = bookmarkDocs'
               /\ IF toggles[i].isBookmarked
                  THEN /\ toggles[i].questionId \in userBookmarks
                       /\ userBookmarks' = userBookmarks \ {toggles[i].questionId}
                       /\ userBookmarks' \cup {toggles[i].questionId} = userBookmarks
                  ELSE /\ toggles[i].questionId \notin userBookmarks
                       /\ userBookmarks' = userBookmarks \cup {toggles[i].questionId}
                       /\ userBookmarks' \ {toggles[i].questionId} = userBookmarks
     /\ \A S \in SUBSET QIds : \A q \in QIds \ S :
          /\ q \in ToggledSet(S, q, FALSE)
          /\ ToggledSet(ToggledSet(S, q, q \in S), q, q \in ToggledSet(S, q, q \in S)) = S
     ]_vars

\* C11 witness: the second half of a round trip is over: a toggle that deleted
\* the record of the shown question has completed with its success message,
\* and the question is in neither the local set nor the store.
C11_Witness ==
  /\ ShowsQuestion
  /\ msg = "success"
  /\ toggles = <<>>
  /\ timers = 1
  /\ userBookmarks = bookmarkDocs
  /\ questions[currentQuestionIndex + 1].id \notin userBookmarks
  /\ ~isQuickRevision

\* The bookmark records the store holds for question q: the document whose id
\* is q, and any whose generated id stands for q.
RecordsFor(q) == {d \in bookmarkDocs : d = q \/ (d > NQ /\ (d - q) % NQ = 0)}

\* C12: under any interleaving of bookmark toggles, also on the same question
\* with a second toggle issued before the first has completed, the store holds
\* at most one bookmark record per question of the user: every record's id is
\* a question id.
C12_OneRecordPerQuestion ==
  /\ bookmarkDocs \subseteq QIds
  /\ \A q \in QIds : Cardinality(RecordsFor(q)) <= 1

\* C12 witness: two toggles of the same question, the second issued before the
\* first completed, have both had their create applied; one record exists.
C12_Witness ==
  /\ Len(toggles) = 2
  /\ toggles[1].questionId = toggles[2].questionId
  /\ ~toggles[1].isBookmarked
  /\ ~toggles[2].isBookmarked
  /\ toggles[1].phase = "written"
  /\ toggles[2].phase = "written"
  /\ RecordsFor(toggles[1].questionId) = {toggles[1].questionId}

\* C13: progress persistence never blocks the session: a check sets the
\* checked flag and appends the result in the step that issues the upsert, which
\* is then still pending; on a checked question next can be taken whatever
\* upserts are pending or have settled; and a settling upsert, failed or not,
\* changes no session state.
C13_PersistenceDoesNotBlock ==
  [][/\ (HandleCheckAnswer /\ selectedOption # NoOption /\ ~isAnswerChecked)
          => /\ isAnswerChecked'
             /\ Len(sessionResults') = Len(sessionResults) + 1
             /\ Len(progressInFlight') = Len(progressInFlight) + 1
     /\ (~loading /\ ~isSessionComplete /\ Len(questions) > 0 /\ isAnswerChecked)
          => ENABLED HandleNext
     /\ (ProgressWriteFail \/ ProgressWriteOk)
          => /\ Len(progressInFlight') = Len(progressInFlight) - 1
             /\ UNCHANGED <<sessionResults, currentQuestionIndex, selectedOption,
                            isAnswerChecked, isSessionComplete, questions, msg, loading>>
     ]_vars

\* C13 witness: next was taken to the second question while the upsert of the
\* first is still pending.
C13_Witness ==
  /\ ShowsQuestion
  /\ currentQuestionIndex = 1
  /\ ~isAnswerChecked
  /\ Len(sessionResults) = 1
  /\ Len(progressInFlight) = 1
  /\ progressInFlight[1].questionId = sessionResults[1].questionId

\* ----------------------------------------------------------- chapter delete
\* The documents of collection coll that the batch does not delete.
Kept(coll, batch) == {d \in adminDb[coll] : <<coll, d.id>> \notin batch}

\* C14: chapter delete is all-or-nothing: a failing dependent query or a failing
\* commit removes no chapter, topic, MCQ or formula record and shows an error
\* message; while a delete runs nothing but its commit changes the store, every
\* batched topic, MCQ and formula record still being there; and the commit
\* removes every batched record in one step and nothing else.
C14_DeleteAllOrNothing ==
  [][/\ DeleteFail
          => /\ adminDb' = adminDb
             /\ adminMsg' = "error"
             /\ ~adminLoading'
             /\ del'.pc = "idle"
     /\ (del.pc # "idle" /\ adminDb' # adminDb) => DeleteCommitOk
     /\ del.pc # "idle"
          => \A r \in del.batch :
               r[1] \in DependentCollections => \E d \in adminDb[r[1]] : d.id = r[2]
     /\ DeleteCommitOk
          => /\ adminDb'.chapters = adminDb.chapters \ {del.chapterId}
             /\ \A coll \in DependentCollections : adminDb'[coll] = Kept(coll, del.batch)
             /\ adminDb'.subjects = adminDb.subjects
             /\ \A r \in del.batch :
                  /\ r[1] = "chapters" => r[2] \notin adminDb'.chapters
                  /\ r[1] \in DependentCollections => \A d \in adminDb'[r[1]] : d.id # r[2]
     ]_vars

\* C14 witness: a delete has failed and shown its error over a chapter that
\* still has its topic, its MCQ and its formula.
C14_Witness ==
  /\ adminMsg = "error"
  /\ ~adminLoading
  /\ del.pc = "idle"
  /\ 1 \in adminDb.chapters
  /\ \A coll \in DependentCollections : \E d \in adminDb[coll] : d.chapterId = 1

\* C15: when a chapter delete succeeds, the chapter record and every topic, MCQ
\* and formula record whose chapterId references the chapter at the moment of
\* the commit are removed, also when other clients write between the delete's
\* queries and its commit.
C15_DeleteRemovesAllReferencing ==
  [][DeleteCommitOk
       => /\ del.chapterId \notin adminDb'.chapters
          /\ \A coll \in DependentCollections :
               \A d \in adminDb[coll] : d.chapterId = del.chapterId => d \notin adminDb'[coll]
     ]_vars

\* --------------------------------------------------------------- add forms
\* A required text is missing: nothing but white space was entered.
Missing(t) == Trim(t) = ""

\* The step reports a validation failure: the error message is set, no store
\* write is issued, and the loading flag is not raised.
Rejected ==
  /\ adminMsg' = "error"
  /\ addInFlight' = NoAdd
  /\ adminLoading' = adminLoading

\* C16: in every admin add form (subject, chapter, topic, formula, MCQ) a
\* missing required field or selection, or an MCQ correct-answer index outside
\* 1..4, sets an error message and returns before any store write is issued and
\* without raising the loading flag.
C16_InvalidFormIsRejected ==
  [][/\ \A t \in Text :
          (HandleAddSubject(t) /\ Missing(t)) => Rejected
     /\ \A t \in Text :
          (HandleAddChapter(t) /\ (selectedSubjectId = NoSelection \/ Missing(t))) => Rejected
     /\ \A t \in Text :
          (HandleAddTopic(t) /\ (selectedChapterId = NoSelection \/ Missing(t))) => Rejected
     /\ \A t, latex \in Text :
          (HandleAddFormula(t, latex)
             /\ (selectedChapterId = NoSelection \/ Missing(t) \/ Missing(latex))) => Rejected
     /\ \A question \in Text, options \in OptionTexts, correctAnswer \in 0..(NumOptions + 1) :
          (HandleAddMcq(question, options, correctAnswer)
             /\ (\/ selectedChapterId = NoSelection
                 \/ Missing(question)
                 \/ \E i \in 1..NumOptions : Missing(options[i])
                 \/ correctAnswer \notin 1..NumOptions)) => Rejected
     ]_vars

\* ------------------------------------------------------------ catalog load
\* C17: a session is built only after both the question fetch and the bookmark
\* fetch of the chapter have completed: no build happens while a fetch is
\* outstanding or has not produced its result.
C17_BuildsOnlyAfterBothFetches ==
  [][BuildStep => fetchPc' = "done"]_vars


\* C18 as stated: at session start the question fetch and the bookmark fetch run
\* concurrently: both requests are issued before either has completed, so the
\* first fetch to settle does so with both in flight.
C18_BothIssuedBeforeEitherCompletes ==
  [][(Load /\ "questions" \in InFlight) => InFlight = {"questions", "bookmarks"}]_vars

\* C18, amended: the two fetches run one after the other: the bookmark request
\* is issued in the step in which the question fetch completes, with the
\* fetched questions already held, and at no time are both in flight.
C18_FetchesRunInSequence ==
  [][/\ Cardinality(InFlight) <= 1
     /\ ("bookmarks" \in InFlight' /\ "bookmarks" \notin InFlight)
          => (FetchQuestionsOk /\ "questions" \in InFlight /\ "questions" \notin InFlight')
     /\ "bookmarks" \in InFlight' => allQuestions' = DocsInOrder(mcqDocs)
    ]_vars

C18_Witness == InFlight = {"bookmarks"} /\ allQuestions # <<>>


\* ------------------------------------------------------------------- limit
\* C19: the limit passed to every session build is an integer in 1..100, and 20
\* until the limit field is edited or the panel is opened, after any sequence of
\* editing the field, opening the panel, applying and resetting; hence a session
\* never holds more questions than that limit, so never more than 100.
C19_LimitInRange ==
  [][/\ tempLimit \in LimitMin..LimitMax
     /\ tempLimit' \in LimitMin..LimitMax
     /\ FetchBookmarksOk => tempLimit = MAX_QUESTIONS_PER_SESSION
     /\ tempLimit' # tempLimit => (HandleOpenFilter \/ \E parsed \in Typed : SetTempLimit(parsed))
     /\ BuildStep => (Len(questions') <= tempLimit /\ Len(questions') <= LimitMax)
    ]_vars

\* A session cut to a limit of 1, which the clamp made of the typed text.
C19_Witness ==
  /\ fetchPc = "done"
  /\ ~isQuickRevision
  /\ Len(allQuestions) = NQ
  /\ tempLimit = LimitMin
  /\ Len(questions) = 1


\* ------------------------------------------------------------ cached list
\* The questions of the chapter, as the store holds them.
ChapterQuestions == Range(DocsInOrder(mcqDocs))

\* The panel asks for every question: topic 'all', mode all outside the
\* revision context, and a limit that does not cut.
AsksForAll ==
  /\ ~isQuickRevision
  /\ tempFilterMode = "all"
  /\ tempTopicId \in {Null, AllTopics}
  /\ tempLimit >= Cardinality(ChapterQuestions)

\* C20: Apply Filters and Reset rebuild the session from the already-fetched
\* question list without issuing any fetch, and leave the cached full list (as a
\* set of questions) and the local bookmark set unchanged; so once the chapter
\* is loaded, whatever was built before, a build with topic 'all', mode all and
\* a large enough limit returns every question of the chapter.
C20_RebuildKeepsCache ==
  [][(HandleApplyFilter \/ HandleResetSession)
       => /\ fetchPc' = fetchPc
          /\ InFlight' = {}
          /\ Range(allQuestions') = Range(allQuestions)
          /\ Len(allQuestions') = Len(allQuestions)
          /\ userBookmarks' = userBookmarks
          /\ (fetchPc = "done" => Range(allQuestions) = ChapterQuestions)
          /\ (fetchPc = "done" /\ AsksForAll) => Range(questions') = ChapterQuestions
    ]_vars

\* Every question is back in the session after Apply Filters with topic 'all'
\* chosen in the panel, the cached list reordered by an earlier build.
C20_Witness ==
  /\ fetchPc = "done"
  /\ selectedTopicId = AllTopics
  /\ ~showFilterModal
  /\ Cardinality(ChapterQuestions) = NQ
  /\ Range(questions) = ChapterQuestions
  /\ allQuestions # DocsInOrder(mcqDocs)


\* ------------------------------------------------------------ failed load
\* C21: when the catalog load fails (the question fetch or the bookmark fetch
\* rejects) the failure is caught where the fetch was called (the step is an
\* ordinary one of the component, which shows no error message), and the view is
\* left either still loading or with an empty session question list.
C21_FailedLoadLeavesEmpty ==
  [][FetchFail
       => /\ loading' \/ questions' = <<>>
          /\ msg' = msg
          /\ ~isSessionComplete'
          /\ sessionResults' = <<>>
          /\ InFlight' = {}
    ]_vars

\* The bookmark fetch failed after the questions had arrived.
C21_Witness ==
  /\ fetchPc = "failed"
  /\ allQuestions # <<>>
  /\ ~loading
  /\ questions = <<>>


\* ----------------------------------------------------------- stale results
\* A result of the old chapter's fetch arrives.
StaleResult == StaleFetchQuestionsOk \/ StaleFetchFail \/ StaleFetchBookmarksOk

\* C22: fetch results that arrive after the view switched to another chapter
\* are ignored: they change neither the cached question list, nor the bookmark
\* set, nor the session, nor the loading flag of the current view.
C22_StaleResultsIgnored ==
  [][StaleResult
       => UNCHANGED <<allQuestions, userBookmarks, questions, runVars, loading>>
    ]_vars


\* ------------------------------------------------------------ log and index
\* C23: in every state of a non-empty session the result log has
\* currentQuestionIndex + (1 if checked, else 0) entries, the k-th for the k-th
\* session question; so in a session completed through next on its last question
\* the log has one entry per question and correct + incorrect = total.
C23_LogTracksPosition ==
  Len(questions) > 0
    => /\ Len(sessionResults) = currentQuestionIndex + (IF isAnswerChecked THEN 1 ELSE 0)
       /\ \A k \in 1..Len(sessionResults) : sessionResults[k].questionId = questions[k].id
       /\ isSessionComplete
            => /\ Len(sessionResults) = Len(questions)
               /\ totalCorrect + totalIncorrect = Len(questions)

\* A completed session of NQ questions, one answered correctly, one not.
C23_Witness ==
  /\ isSessionComplete
  /\ Len(questions) = NQ
  /\ totalCorrect = 1
  /\ totalIncorrect = NQ - 1


\* The index is within the session list (0 for an empty list).
IndexInRange ==
  /\ Len(questions) > 0 => (0 <= currentQuestionIndex /\ currentQuestionIndex < Len(questions))
  /\ Len(questions) = 0 => currentQuestionIndex = 0

\* C24: after any sequence of load, apply-filter, check, next and reset, the
\* index satisfies 0 <= index < length when the session list is non-empty (and
\* is 0 when it is empty), and a loaded view that is neither loading nor
\* complete has a current question to show.
C24_IndexInRangeAndQuestionShown ==
  /\ IndexInRange
  /\ (fetchPc = "done" /\ ~loading /\ ~isSessionComplete)
       => (Len(questions) > 0 /\ currentQuestionIndex < Len(questions))


\* -------------------------------------------------------- bookmark agreement
\* C25: whenever no bookmark toggle is in flight in a loaded chapter, a question
\* is in the local bookmark set exactly when its bookmark record is in the
\* store, for every interleaving of toggles of one question and every order in
\* which their writes and responses complete or fail.
C25_LocalSetAgreesWithStore ==
  (fetchPc = "done" /\ toggles = <<>>)
    => \A q \in mcqDocs : q \in userBookmarks <=> BookmarkRef(q) \in bookmarkDocs


\* ---------------------------------------------------- progress and bookmark
\* A progress upsert and a bookmark write of the same question, both issued.
RacingPairs ==
  {<<a, b>> \in userWrites \X userWrites :
     /\ a.op = "set" /\ a.data \in {"correct", "incorrect"}
     /\ b.data = "bookmark"
     /\ a.id = b.id
     /\ a.phase = "issued" /\ b.phase = "issued"}

\* C26: a progress upsert and a bookmark toggle of the same question write
\* different records (progress/<qid> and bookmarks/<qid>), so the store after
\* both is the same in either order, and neither write overwrites or deletes
\* the other's record.
C26_WritesCommute ==
  /\ \A p \in RacingPairs :
       /\ Applied(Applied(userDocs, p[1]), p[2]) = Applied(Applied(userDocs, p[2]), p[1])
       /\ <<p[1].collection, p[1].id>> # <<p[2].collection, p[2].id>>
       /\ Applied(userDocs, p[1])["bookmarks"] = userDocs["bookmarks"]
       /\ Applied(userDocs, p[2])["progress"] = userDocs["progress"]
  /\ \A q \in QIds : userDocs["bookmarks"][q] \in {Absent, "bookmark"}
  /\ \A q \in QIds : userDocs["progress"][q] \in {Absent, "correct", "incorrect"}

\* Both writes of question 1 are applied, the bookmark delete after the
\* progress upsert or before it, over records that existed.
C26_Witness ==
  /\ \E a, b \in userWrites :
       /\ a.collection = "progress" /\ b.collection = "bookmarks"
       /\ a.id = 1 /\ b.id = 1
       /\ b.op = "delete"
       /\ a.phase = "applied" /\ b.phase = "applied"
  /\ userDocs["progress"][1] = "incorrect"
  /\ userDocs["bookmarks"][1] = Absent
  /\ userDocs["bookmarks"][2] = "bookmark"


\* ---------------------------------------------------------------- orphans
\* C27: the admin add handlers never create a topic, MCQ or formula whose
\* chapterId refers to a deleted chapter: every topic, MCQ and formula in the
\* store references an existing chapter, also after a successful chapter delete
\* and whatever the same admin adds afterwards.
C27_RecordsReferenceExistingChapter ==
  \A coll \in DependentCollections :
    \A d \in adminDb[coll] : d.chapterId \in adminDb.chapters


\* ----------------------------------------------------------- chapter order
\* C28: every chapter added through the form receives an order strictly
\* greater than the order of every chapter already stored for the subject (1
\* for the first), so the orders within a subject stay distinct, also when a
\* second add is submitted while the list refresh of the first is in flight.
C28_ChapterOrdersIncrease ==
  /\ Len(chapterDocs) > 0 => chapterDocs[1] = 1
  /\ \A i, j \in 1..Len(chapterDocs) : i < j => chapterDocs[i] < chapterDocs[j]


\* -------------------------------------------------------------- MCQ record
\* C29: every MCQ record written by the admin MCQ form has a non-empty trimmed
\* question text, exactly four non-empty trimmed option texts, a chapterId and
\* a correctAnswer in 1..4.
C29_McqRecordWellFormed ==
  addInFlight.collection = "mcqs"
    => /\ addInFlight.text # ""
       /\ Trim(addInFlight.text) = addInFlight.text
       /\ Len(addInFlight.options) = NumOptions
       /\ \A i \in 1..NumOptions :
            addInFlight.options[i] # "" /\ Trim(addInFlight.options[i]) = addInFlight.options[i]
       /\ addInFlight.chapterId # NoSelection
       /\ addInFlight.correctAnswer \in 1..NumOptions


\* ------------------------------------------------------- chapter selection
\* C30: a click on a chapter calls onSelectChapter exactly when none of these
\* holds: the chapter is locked and the view is in normal practice mode; the
\* view is in formula mode and formulaCount is 0; the view is in quick
\* revision mode and revisionCount is 0.  So a locked chapter is never opened
\* in normal practice mode.
C30_OpensExactlyWhenNotBlocked ==
  click.clicked =>
    /\ click.onSelectChapter <=>
         ~ \/ click.chapter.isLocked /\ ~chapterList.isQuickRevision /\ ~chapterList.isFormulaMode
           \/ chapterList.isFormulaMode /\ click.chapter.formulaCount = 0
           \/ chapterList.isQuickRevision /\ click.chapter.revisionCount = 0
    /\ (click.onSelectChapter /\ click.chapter.isLocked)
         => (chapterList.isQuickRevision \/ chapterList.isFormulaMode)

\* A locked chapter is opened in quick revision mode: the lock is ignored.
C30_Witness ==
  /\ click.clicked
  /\ click.onSelectChapter
  /\ click.chapter.isLocked
  /\ chapterList.isQuickRevision
  /\ ~chapterList.isFormulaMode

====
